---------------------------- MODULE Spec2Model ----------------------------
(***************************************************************************)
(* HDF5CLexer (docs/design_doc/hdf5-c-lexer.py): a Pygments CLexer         *)
(* subclass whose get_tokens_unprocessed is a generator that re-tags the   *)
(* upstream Name tokens whose text is in EXTRA_KEYWORDS as Keyword.        *)
(*                                                                         *)
(* A token is a record [index, token, value], the triple the generator     *)
(* unpacks.  A text is the tuple of its characters, so that equality of    *)
(* texts is character-for-character equality, as Python's str == is.  A    *)
(* token type is the tuple of its path below the root Token type (Name is  *)
(* <<"Name">>, Name.Function is <<"Name", "Function">>); Pygments keeps    *)
(* one object per path, so `is` on the types a lexer yields is equality of *)
(* paths.                                                                  *)
(***************************************************************************)
EXTENDS Integers, Sequences, FiniteSets, TLC

\* ------------------------------------------------------------------ bounds
\* The longest upstream token stream of one call.
MaxLen == 2

\* ------------------------------------------------------------- token types
Name == <<"Name">>
Keyword == <<"Keyword">>
Comment == <<"Comment">>
NameFunction == <<"Name", "Function">>
KeywordType == <<"Keyword", "Type">>

\* --------------------------------------------------------- the keyword list
\* KeywordList with hssize_t added as an eighteenth entry.
KeywordListPlusHssize ==
  << <<"h", "i", "d", "_", "t">>,
     <<"h", "e", "r", "r", "_", "t">>,
     <<"h", "b", "o", "o", "l", "_", "t">>,
     <<"h", "s", "i", "z", "e", "_", "t">>,
     <<"h", "s", "s", "i", "z", "e", "_", "t">>,
     <<"h", "t", "r", "i", "_", "t">>,
     <<"H", "5", "I", "_", "t", "y", "p", "e", "_", "t">>,
     <<"h", "a", "d", "d", "r", "_", "t">>,
     <<"u", "u", "i", "d", "_", "t">>,
     <<"H", "5", "V", "L", "_", "t", "o", "k", "e", "n", "_", "t">>,
     <<"H", "5", "R", "_", "r", "e", "f", "_", "t">>,
     <<"H", "5", "R", "_", "t", "y", "p", "e", "_", "t">>,
     <<"H", "5", "O", "_", "t", "y", "p", "e", "_", "t">>,
     <<"H", "5", "G", "_", "o", "b", "j", "_", "t">>,
     <<"h", "o", "b", "j", "_", "r", "e", "f", "_", "t">>,
     <<"h", "d", "s", "e", "t", "_", "r", "e", "g", "_", "r", "e", "f", "_", "t">>,
     <<"M", "P", "I", "_", "C", "o", "m", "m">>,
     <<"M", "P", "I", "_", "I", "n", "f", "o">> >>

\* The list literal assigned to the class attribute EXTRA_KEYWORDS.
KeywordList ==
  << <<"h", "i", "d", "_", "t">>,
     <<"h", "e", "r", "r", "_", "t">>,
     <<"h", "b", "o", "o", "l", "_", "t">>,
     <<"h", "s", "i", "z", "e", "_", "t">>,
     <<"h", "t", "r", "i", "_", "t">>,
     <<"H", "5", "I", "_", "t", "y", "p", "e", "_", "t">>,
     <<"h", "a", "d", "d", "r", "_", "t">>,
     <<"u", "u", "i", "d", "_", "t">>,
     <<"H", "5", "V", "L", "_", "t", "o", "k", "e", "n", "_", "t">>,
     <<"H", "5", "R", "_", "r", "e", "f", "_", "t">>,
     <<"H", "5", "R", "_", "t", "y", "p", "e", "_", "t">>,
     <<"H", "5", "O", "_", "t", "y", "p", "e", "_", "t">>,
     <<"H", "5", "G", "_", "o", "b", "j", "_", "t">>,
     <<"h", "o", "b", "j", "_", "r", "e", "f", "_", "t">>,
     <<"h", "d", "s", "e", "t", "_", "r", "e", "g", "_", "r", "e", "f", "_", "t">>,
     <<"M", "P", "I", "_", "C", "o", "m", "m">>,
     <<"M", "P", "I", "_", "I", "n", "f", "o">> >>

\* ------------------------------------------------- what the upstream yields
\* Texts of upstream tokens: two keywords, their case variants, a proper
\* prefix and a superstring of a keyword, and a name that is no keyword.
hid_t == <<"h", "i", "d", "_", "t">>
MPI_Comm == <<"M", "P", "I", "_", "C", "o", "m", "m">>
HID_T == <<"H", "I", "D", "_", "T">>
mpi_comm == <<"m", "p", "i", "_", "c", "o", "m", "m">>
hid_t2 == <<"h", "i", "d", "_", "t", "2">>
hid == <<"h", "i", "d">>
int == <<"i", "n", "t">>

UpstreamTexts == {hid_t, MPI_Comm, HID_T, mpi_comm, hid_t2, hid, int}

\* The (token type, text) pairs CLexer.get_tokens_unprocessed may yield next:
\* a Name with any of the texts, and the text hid_t under the other types.
UpstreamAlphabet ==
  ({Name} \X UpstreamTexts) \cup ({Keyword, Comment, NameFunction} \X {hid_t})

\* The exceptions the upstream lexer may raise instead of a token.
UpstreamErrors == {"UnicodeDecodeError", "RecursionError"}

VARIABLES
  EXTRA_KEYWORDS,  \* the class attribute HDF5CLexer.EXTRA_KEYWORDS
  pc,              \* where the generator is: "idle" (none created), "waiting"
                   \* (created or suspended at a yield), "running" (resumed,
                   \* at the head of the for loop), "got" (a triple unpacked,
                   \* before the if), "done" (returned), "failed" (raised)
  upstream,        \* the upstream generator: "idle", "live", "exhausted", "raised"
  input,           \* the tokens pulled from the upstream so far, in order
  output,          \* the tokens yielded to the consumer so far, in order
  requests,        \* how many times the consumer called next() on the generator
  upstreamError,   \* what the upstream raised, "none" if nothing
  surfaced,        \* what the generator raised to the consumer, "none" if nothing
  probe            \* history: one (stream index, input token, output token)
                   \* of the previous call, {} if there is none

vars == <<EXTRA_KEYWORDS, pc, upstream, input, output, requests,
          upstreamError, surfaced, probe>>

\* ------------------------------------------------------------------ helpers
\* Python's `value in list`: some element equals value.
InList(value, list) == \E k \in 1..Len(list) : list[k] = value

\* The position at which the upstream lexer emits its next token: it scans
\* the text forward, each token starting where the previous one ended.
NextPosition ==
  IF input = <<>> THEN 0
  ELSE input[Len(input)].index + Len(input[Len(input)].value)

\* ---- variants of Reclassify with one slip each, and what they need
\* Pygments' `child in parent` on token types: child is parent or below it.
IsSubtype(child, parent) ==
  /\ Len(parent) <= Len(child)
  /\ SubSeq(child, 1, Len(parent)) = parent

\* str.lower() on the ASCII letters.
UpperChars == <<"A", "B", "C", "D", "E", "F", "G", "H", "I", "J", "K", "L", "M",
                "N", "O", "P", "Q", "R", "S", "T", "U", "V", "W", "X", "Y", "Z">>
LowerChars == <<"a", "b", "c", "d", "e", "f", "g", "h", "i", "j", "k", "l", "m",
                "n", "o", "p", "q", "r", "s", "t", "u", "v", "w", "x", "y", "z">>
LowerChar(c) ==
  IF \E k \in 1..Len(UpperChars) : UpperChars[k] = c
  THEN LowerChars[CHOOSE k \in 1..Len(UpperChars) : UpperChars[k] = c]
  ELSE c
Lower(text) == [j \in 1..Len(text) |-> LowerChar(text[j])]

\* Reclassify yielding Keyword.Type, the type CLexer gives to C type names.
ReclassifyKeywordType(tok) ==
  IF tok.token = Name /\ InList(tok.value, EXTRA_KEYWORDS)
  THEN [index |-> tok.index, token |-> KeywordType, value |-> tok.value]
  ELSE tok

\* Reclassify without the test on the token type.
ReclassifyAnyType(tok) ==
  IF InList(tok.value, EXTRA_KEYWORDS)
  THEN [index |-> tok.index, token |-> Keyword, value |-> tok.value]
  ELSE tok

\* Reclassify testing `token in Name` instead of `token is Name`.
ReclassifySubtype(tok) ==
  IF IsSubtype(tok.token, Name) /\ InList(tok.value, EXTRA_KEYWORDS)
  THEN [index |-> tok.index, token |-> Keyword, value |-> tok.value]
  ELSE tok

\* Reclassify comparing the texts without regard to case.
ReclassifyIgnoreCase(tok) ==
  IF tok.token = Name
     /\ \E k \in 1..Len(EXTRA_KEYWORDS) : Lower(EXTRA_KEYWORDS[k]) = Lower(tok.value)
  THEN [index |-> tok.index, token |-> Keyword, value |-> tok.value]
  ELSE tok

\* Reclassify whose else branch yields the constant Name instead of token.
ReclassifyElseName(tok) ==
  IF tok.token = Name /\ InList(tok.value, EXTRA_KEYWORDS)
  THEN [index |-> tok.index, token |-> Keyword, value |-> tok.value]
  ELSE [index |-> tok.index, token |-> Name, value |-> tok.value]

\* ---- the filter itself
\* The body of the for loop, lines 22-25: the token the generator yields for
\* the triple (index, token, value).
Reclassify(tok) ==
  IF tok.token = Name /\ InList(tok.value, EXTRA_KEYWORDS)
  THEN [index |-> tok.index, token |-> Keyword, value |-> tok.value]
  ELSE tok

\* -------------------------------------------------------------------- Init
\* The class is defined and a lexer constructed; no generator exists yet.
Init ==
  /\ EXTRA_KEYWORDS = KeywordList
  /\ pc = "idle"
  /\ upstream = "idle"
  /\ input = <<>>
  /\ output = <<>>
  /\ requests = 0
  /\ upstreamError = "none"
  /\ surfaced = "none"
  /\ probe = {}

\* ----------------------------------------------------------------- actions
\* Call as an eager function: the first upstream token is fetched at the call.
CallEager ==
  /\ pc \in {"idle", "done", "failed"}
  /\ pc' = "waiting"
  /\ upstream' = "live"
  /\ \E a \in UpstreamAlphabet :
       input' = <<[index |-> 0, token |-> a[1], value |-> a[2]]>>
  /\ output' = <<>>
  /\ requests' = 0
  /\ upstreamError' = "none"
  /\ surfaced' = "none"
  /\ IF output = <<>>
     THEN probe' = {}
     ELSE \E i \in 1..Len(output) :
            probe' = {[i |-> i, tok |-> input[i], out |-> output[i]]}
  /\ UNCHANGED EXTRA_KEYWORDS

\* get_tokens_unprocessed(text) is called: a generator object is created and
\* no line of its body runs.  The previous call's streams are dropped; one of
\* its (index, input, output) triples is remembered in probe.
Call ==
  /\ pc \in {"idle", "done", "failed"}
  /\ pc' = "waiting"
  /\ upstream' = "idle"
  /\ input' = <<>>
  /\ output' = <<>>
  /\ requests' = 0
  /\ upstreamError' = "none"
  /\ surfaced' = "none"
  /\ IF output = <<>>
     THEN probe' = {}
     ELSE \E i \in 1..Len(output) :
            probe' = {[i |-> i, tok |-> input[i], out |-> output[i]]}
  /\ UNCHANGED EXTRA_KEYWORDS

\* The consumer calls next(): the generator resumes after its last yield (or
\* starts, which creates the upstream generator) and reaches the for header.
Resume ==
  /\ pc = "waiting"
  /\ pc' = "running"
  /\ requests' = requests + 1
  /\ upstream' = "live"
  /\ UNCHANGED <<EXTRA_KEYWORDS, input, output, upstreamError, surfaced, probe>>

\* The for header pulls the next triple from the upstream generator.
PullToken ==
  /\ pc = "running"
  /\ Len(input) < MaxLen
  /\ \E a \in UpstreamAlphabet :
       input' = Append(input, [index |-> NextPosition, token |-> a[1], value |-> a[2]])
  /\ pc' = "got"
  /\ UNCHANGED <<EXTRA_KEYWORDS, upstream, output, requests, upstreamError,
                 surfaced, probe>>

\* The upstream generator is exhausted: the for loop ends and the generator
\* returns.
PullStop ==
  /\ pc = "running"
  /\ upstream' = "exhausted"
  /\ pc' = "done"
  /\ UNCHANGED <<EXTRA_KEYWORDS, input, output, requests, upstreamError,
                 surfaced, probe>>

\* PullRaise inside a try/except that ends the stream quietly.
PullRaiseSwallowed ==
  /\ pc = "running"
  /\ \E e \in UpstreamErrors : upstreamError' = e
  /\ surfaced' = "none"
  /\ upstream' = "raised"
  /\ pc' = "done"
  /\ UNCHANGED <<EXTRA_KEYWORDS, input, output, requests, probe>>

\* The upstream generator raises: no handler is in the way, the exception
\* leaves the generator as it is.
PullRaise ==
  /\ pc = "running"
  /\ \E e \in UpstreamErrors :
       /\ upstreamError' = e
       /\ surfaced' = e
  /\ upstream' = "raised"
  /\ pc' = "failed"
  /\ UNCHANGED <<EXTRA_KEYWORDS, input, output, requests, probe>>

\* Yield without the else branch: a token that does not match is not yielded
\* and the loop goes on to the next one.
YieldDropping ==
  /\ pc = "got"
  /\ IF Reclassify(input[Len(input)]) # input[Len(input)]
     THEN /\ output' = Append(output, Reclassify(input[Len(input)]))
          /\ pc' = "waiting"
     ELSE /\ output' = output
          /\ pc' = "running"
  /\ UNCHANGED <<EXTRA_KEYWORDS, upstream, input, requests, upstreamError,
                 surfaced, probe>>

\* Yield that remembers the Name that follows a reclassified type name (the
\* declared variable) by appending it to EXTRA_KEYWORDS.
YieldLearning ==
  /\ pc = "got"
  /\ output' = Append(output, Reclassify(input[Len(input)]))
  /\ pc' = "waiting"
  /\ IF /\ output # <<>>
        /\ output[Len(output)].token = Keyword
        /\ input[Len(input)].token = Name
        /\ ~InList(input[Len(input)].value, EXTRA_KEYWORDS)
     THEN EXTRA_KEYWORDS' = Append(EXTRA_KEYWORDS, input[Len(input)].value)
     ELSE EXTRA_KEYWORDS' = EXTRA_KEYWORDS
  /\ UNCHANGED <<upstream, input, requests, upstreamError, surfaced, probe>>

\* The loop body: test the unpacked triple and yield; the generator suspends.
Yield ==
  /\ pc = "got"
  /\ output' = Append(output, Reclassify(input[Len(input)]))
  /\ pc' = "waiting"
  /\ UNCHANGED <<EXTRA_KEYWORDS, upstream, input, requests, upstreamError,
                 surfaced, probe>>

Next == Call \/ Resume \/ PullToken \/ PullStop \/ PullRaise \/ Yield

Spec == Init /\ [][Next]_vars

\* ------------------------------------------------------------ claim helpers
\* The set of the texts of a keyword list.
KeywordSet(list) == {list[k] : k \in 1..Len(list)}

\* Two texts are equal character for character.
SameText(a, b) == Len(a) = Len(b) /\ \A j \in 1..Len(a) : a[j] = b[j]

\* text occurs inside whole (as a prefix, a suffix or in the middle).
IsSubstring(text, whole) ==
  \E from \in 1..(Len(whole) - Len(text) + 1) :
    SubSeq(whole, from, from + Len(text) - 1) = text

\* text equals some entry of the literal keyword list, character for character.
ExactKeyword(text) == \E k \in 1..Len(KeywordList) : SameText(text, KeywordList[k])

\* text is no entry, and differs from one only in letter case, or is a proper
\* part of one, or contains one.
NearMiss(text) ==
  /\ ~ExactKeyword(text)
  /\ \E k \in 1..Len(KeywordList) :
       \/ Lower(text) = Lower(KeywordList[k])
       \/ IsSubstring(text, KeywordList[k])
       \/ IsSubstring(KeywordList[k], text)

\* The filter applied to a whole stream.
FilterStream(stream) == [i \in 1..Len(stream) |-> Reclassify(stream[i])]

\* The tokens yielded so far, by stream index.
Yielded == 1..Len(output)

\* ------------------------------------------------------------------- claims
\* C1: every upstream token of type Name whose text is in the keyword set is
\* yielded with type Keyword, the same position and the same text.
C1_KeywordReclassified ==
  \A i \in Yielded :
    (input[i].token = Name /\ input[i].value \in KeywordSet(KeywordList))
      => output[i] = [index |-> input[i].index, token |-> Keyword,
                      value |-> input[i].value]

C1_Witness ==
  \E i \in Yielded :
    /\ input[i] = [index |-> 5, token |-> Name, value |-> hid_t]
    /\ output[i] = [index |-> 5, token |-> Keyword, value |-> hid_t]

\* C2: every upstream token that is not both of type Name and in the keyword
\* set is yielded identical in position, type and text.
C2_OthersUnchanged ==
  \A i \in Yielded :
    ~(input[i].token = Name /\ input[i].value \in KeywordSet(KeywordList))
      => output[i] = input[i]

C2_Witness ==
  /\ \E i \in Yielded :
       /\ input[i] = [index |-> 3, token |-> Comment, value |-> hid_t]
       /\ output[i] = input[i]
  /\ \E i \in Yielded :
       /\ input[i] = [index |-> 0, token |-> Name, value |-> int]
       /\ output[i] = input[i]

\* C3: the output stream is the input stream mapped token by token: whenever
\* the generator is not between a pull and its yield the two have the same
\* length, the i-th output is the image of the i-th input, with its position
\* and text, and the generator has returned exactly when the upstream is
\* exhausted.
C3_OneToOne ==
  /\ Len(output) <= Len(input)
  /\ pc # "got" => Len(output) = Len(input)
  /\ \A i \in Yielded :
       /\ output[i] = Reclassify(input[i])
       /\ output[i].index = input[i].index
       /\ output[i].value = input[i].value
  /\ pc = "done" <=> upstream = "exhausted"

C3_Witness ==
  /\ pc = "done"
  /\ Len(input) = 2
  /\ Len(output) = 2
  /\ output[1] # input[1]
  /\ output[2] = input[2]

\* C4: the filter applied to the stream it has yielded gives that stream back,
\* token for token.
C4_Idempotent == FilterStream(output) = output

C4_Witness ==
  /\ pc = "done"
  /\ \E i \in Yielded : input[i].token = Name /\ output[i].token = Keyword
  /\ \E i \in Yielded : input[i].token = Comment
  /\ FilterStream(output) = output

\* C5 as stated: EXTRA_KEYWORDS holds exactly 18 distinct strings.
C5_EighteenKeywords ==
  /\ Len(EXTRA_KEYWORDS) = 18
  /\ Cardinality(KeywordSet(EXTRA_KEYWORDS)) = 18

\* C5 amended: EXTRA_KEYWORDS holds exactly 17 distinct strings.
C5_SeventeenKeywords ==
  /\ Len(EXTRA_KEYWORDS) = 17
  /\ Cardinality(KeywordSet(EXTRA_KEYWORDS)) = 17

C5_Witness ==
  /\ Cardinality(KeywordSet(EXTRA_KEYWORDS)) = 17
  /\ EXTRA_KEYWORDS[17] = <<"M", "P", "I", "_", "I", "n", "f", "o">>
  /\ \E i \in Yielded : input[i].value = MPI_Comm /\ output[i].token = Keyword

\* C6: a Name token is reclassified if and only if its text equals an entry of
\* the keyword list character for character; a text that differs from every
\* entry only in case, or is a proper part of an entry, or contains one, is
\* yielded unchanged.
C6_ExactMatch ==
  \A i \in Yielded :
    input[i].token = Name =>
      /\ output[i] = input[i] => ~ExactKeyword(input[i].value)
      /\ output[i] # input[i] =>
           /\ ExactKeyword(input[i].value)
           /\ output[i].token = Keyword
           /\ ~NearMiss(input[i].value)

C6_Witness ==
  /\ \E i \in Yielded :
       input[i].token = Name /\ input[i].value = HID_T
         /\ NearMiss(HID_T) /\ output[i] = input[i]
  /\ \E i \in Yielded :
       input[i].token = Name /\ input[i].value \in {hid, hid_t2}
         /\ NearMiss(input[i].value) /\ output[i] = input[i]

\* C7: the generator raises only what the upstream raised: once the upstream
\* has raised after k tokens, k tokens have been yielded and that same
\* exception has left the generator; a pulled token can always be yielded.
C7_NoOwnFailure ==
  /\ surfaced # "none" => surfaced = upstreamError
  /\ upstreamError # "none" =>
       /\ surfaced = upstreamError
       /\ pc = "failed"
       /\ Len(output) = Len(input)
       /\ \A i \in Yielded : output[i] = Reclassify(input[i])
  /\ pc = "failed" <=> upstream = "raised"
  /\ upstream = "raised" => upstreamError \in UpstreamErrors
  /\ pc = "got" => ENABLED Yield

C7_Witness ==
  /\ pc = "failed"
  /\ surfaced = "UnicodeDecodeError"
  /\ Len(input) = 1
  /\ Len(output) = 1

\* C8: the token yielded at a stream index depends on the upstream token at
\* that index alone: when this call's upstream token at index i equals the
\* previous call's, so does the yielded one; and EXTRA_KEYWORDS is what the
\* class body set it to.
C8_Stateless ==
  /\ EXTRA_KEYWORDS = KeywordList
  /\ \A p \in probe :
       (p.i \in Yielded /\ input[p.i] = p.tok) => output[p.i] = p.out

C8_Witness ==
  \E p \in probe :
    /\ p.i = 2
    /\ p.i \in Yielded
    /\ input[2] = p.tok
    /\ output[2] = p.out
    /\ p.tok = [index |-> 5, token |-> Name, value |-> int]
    /\ input[1].value = HID_T
    /\ EXTRA_KEYWORDS = KeywordList

\* C9: the upstream is pulled only on the consumer's request, one token per
\* request: never more tokens pulled than requests made, never more than one
\* pulled token not yet yielded, and between requests every pulled token has
\* been yielded.
C9_Lazy ==
  /\ Len(input) <= requests
  /\ Len(output) <= Len(input)
  /\ Len(input) <= Len(output) + 1
  /\ pc = "waiting" => (Len(input) = requests /\ Len(output) = requests)
  /\ pc = "running" => (Len(input) = requests - 1 /\ Len(output) = requests - 1)
  /\ pc = "got" => (Len(input) = requests /\ Len(output) = requests - 1)
  /\ requests = 0 => upstream = "idle"

C9_Witness ==
  /\ pc = "got"
  /\ requests = 2
  /\ Len(input) = 2
  /\ Len(output) = 1

\* C10: a token whose type is below Name but is not Name is yielded unchanged
\* even when its text is a keyword, and a token whose type is changed gets the
\* root type Keyword.
C10_RootTypesOnly ==
  \A i \in Yielded :
    /\ (IsSubtype(input[i].token, Name) /\ input[i].token # Name)
         => output[i] = input[i]
    /\ output[i].token # input[i].token => output[i].token = Keyword

C10_Witness ==
  /\ \E i \in Yielded :
       /\ input[i].token = NameFunction
       /\ input[i].value \in KeywordSet(KeywordList)
       /\ output[i] = input[i]
  /\ \E i \in Yielded :
       /\ input[i].token = Name
       /\ output[i].token = Keyword


=============================================================================
